---- MODULE Spec2Model ----
(***************************************************************************)
(* Model of opps.core: the abstract models of opps/core/models.py (Date,   *)
(* Publishable, Slugged, BaseConfig) and the admin operations of           *)
(* opps/core/admin.py that save them (PublishableAdmin.save_model,         *)
(* MassPublishMixin.publish).                                              *)
(*                                                                         *)
(* Three tables are modelled, one per abstract class family:               *)
(*   slugged      rows of a concrete Slugged model that defines            *)
(*                get_absolute_url (slug, site), with the Redirect table   *)
(*   publishables rows of a concrete Publishable model                     *)
(*   configs      rows of the concrete BaseConfig model                    *)
(* Each operation records the call and what it returned or raised in a     *)
(* "last..." variable, the way a caller observes it.                       *)
(***************************************************************************)
EXTENDS Integers, Sequences, FiniteSets, Bags

VARIABLES
    slugged,       \* Slugged table: primary key -> [slug, site], or NoRow
    redirects,     \* Redirect table: a bag of [site, old_path, new_path]
    lastSave,      \* the last save of a Slugged instance and its outcome
    now,           \* timezone.now(), a clock that never goes back
    publishables,  \* Publishable table: primary key -> row, or NoPublishable
    lastPub,       \* the last is_published() call and what it gave
    configs,       \* BaseConfig table: a set of rows
    lastConfig     \* the last insert or get_value on configs and its result

vars == <<slugged, redirects, lastSave, now, publishables, lastPub,
          configs, lastConfig>>

slugVars == <<slugged, redirects, lastSave>>
pubVars == <<publishables, lastPub>>
configVars == <<configs, lastConfig>>

----------------------------------------------------------------------------
(* Bounds of the model *)

MaxPk == 2
MaxRedirects == 2
MaxTime == 1

\* A null column (None in Python, NULL in the table).
None == -1

Times == 0..MaxTime

PKs == 1..MaxPk
Slugs == {"a", "b", "c"}
Sites == {1, 2}

----------------------------------------------------------------------------
(* Slugged and the Redirect table *)

\* An unused primary key of the slugged table.
NoRow == [slug |-> "", site |-> 0]

\* The concrete model's get_absolute_url: the canonical path of a slug.
get_absolute_url(slug) == "/" \o slug

\* hasattr(self, 'get_absolute_url') for the concrete model of this table.
HasGetAbsoluteUrl == TRUE

\* clean(): path = self.get_absolute_url(), or self.slug when that raises.
CleanPath(slug, urlOk) == IF urlOk THEN get_absolute_url(slug) ELSE slug

\* clean(): site = self.site or Site.objects.get(pk=1)
CleanSite(site) == IF site = 0 THEN 1 ELSE site

\* clean() raises ValidationError: a Redirect of the site has the path as old_path.
CleanRaises(redirs, slug, site, urlOk) ==
    /\ HasGetAbsoluteUrl
    /\ \E r \in BagToSet(redirs) :
          /\ r.site = CleanSite(site)
          /\ r.old_path = CleanPath(slug, urlOk)

\* save(): old_object.slug != self.slug, for a persisted record.
SlugChanged(objs, pk, slug) ==
    /\ HasGetAbsoluteUrl
    /\ pk # 0
    /\ objs[pk].slug # slug

\* A save() in which a failing get_absolute_url() raises nothing.
SaveSwallowsUrlError(objs, pk, slug, urlOk) == FALSE

\* save(): a get_absolute_url() call made while building the Redirect raises;
\* save() has no handler, so the exception leaves save() before redirect.save().
SaveUrlRaises(objs, pk, slug, urlOk) == SlugChanged(objs, pk, slug) /\ ~urlOk

\* A Redirect built with old_path and new_path exchanged.
NewRedirectSwapped(site, oldSlug, newSlug) ==
    [site |-> site,
     old_path |-> get_absolute_url(newSlug),
     new_path |-> get_absolute_url(oldSlug)]

\* save(): Redirect(site=self.site, old_path=old_object.get_absolute_url(),
\*                  new_path=self.get_absolute_url())
NewRedirect(site, oldSlug, newSlug) ==
    [site |-> site,
     old_path |-> get_absolute_url(oldSlug),
     new_path |-> get_absolute_url(newSlug)]

\* save(): the Redirect table after the redirect step (redirect.save()).
SaveRedirects(objs, redirs, pk, slug, site) ==
    IF SlugChanged(objs, pk, slug)
    THEN redirs (+) SetToBag({NewRedirect(site, objs[pk].slug, slug)})
    ELSE redirs

\* slug = SlugField(unique=True): another row already holds the slug.
SlugTaken(objs, pk, slug) ==
    \E q \in PKs : q # pk /\ objs[q] # NoRow /\ objs[q].slug = slug

\* The primary key an insert is given.
FreePk(objs) == CHOOSE p \in PKs : objs[p] = NoRow /\ \A q \in PKs : q < p => objs[q] # NoRow

\* super(Slugged, self).save(): insert when self.pk is None, update otherwise.
SuperSave(objs, pk, slug, site) ==
    IF pk = 0
    THEN [objs EXCEPT ![FreePk(objs)] = [slug |-> slug, site |-> site]]
    ELSE [objs EXCEPT ![pk] = [slug |-> slug, site |-> site]]

\* The instances a caller can hand to save(): a new one (pk 0 stands for
\* self.pk is None) while the table has room, or a persisted one.
CanSave(pk, slug) ==
    /\ pk = 0 => \E p \in PKs : slugged[p] = NoRow
    /\ pk # 0 => slugged[pk] # NoRow
    /\ SlugChanged(slugged, pk, slug) => BagCardinality(redirects) < MaxRedirects

SaveOutcome(pk, slug, urlOk) ==
    IF SaveUrlRaises(slugged, pk, slug, urlOk) THEN "UrlError"
    ELSE IF SlugTaken(slugged, pk, slug) THEN "IntegrityError"
    ELSE "saved"

\* Slugged.save(), whole: the redirect step, then the primary save.
SaveBody(pk, slug, site, urlOk) ==
    /\ redirects' = IF SaveUrlRaises(slugged, pk, slug, urlOk)
                    THEN redirects
                    ELSE SaveRedirects(slugged, redirects, pk, slug, site)
    /\ slugged' = IF SaveOutcome(pk, slug, urlOk) = "saved"
                  THEN SuperSave(slugged, pk, slug, site)
                  ELSE slugged

\* obj.save() called directly, with no clean() before it
\* (as MassPublishMixin.publish and PublishableAdmin.save_model call it).
Save(pk, slug, site, urlOk) ==
    /\ CanSave(pk, slug)
    /\ SaveBody(pk, slug, site, urlOk)
    /\ UNCHANGED <<now, pubVars, configVars>>
    /\ lastSave' = [pk |-> pk, slug |-> slug, site |-> site,
                    urlOk |-> urlOk,
                    outcome |-> SaveOutcome(pk, slug, urlOk)]

\* clean() and then, when it raised nothing, save(): the validated save.
CleanSave(pk, slug, site, urlOk) ==
    /\ CanSave(pk, slug)
    /\ UNCHANGED <<now, pubVars, configVars>>
    /\ IF CleanRaises(redirects, slug, site, urlOk)
       THEN /\ UNCHANGED <<slugged, redirects>>
            /\ lastSave' = [pk |-> pk, slug |-> slug,
                            site |-> site, urlOk |-> urlOk,
                            outcome |-> "ValidationError"]
       ELSE /\ SaveBody(pk, slug, site, urlOk)
            /\ lastSave' = [pk |-> pk, slug |-> slug,
                            site |-> site, urlOk |-> urlOk,
                            outcome |-> SaveOutcome(pk, slug, urlOk)]

----------------------------------------------------------------------------
(* Date and Publishable *)

\* An unused primary key of the publishables table.
NoPublishable ==
    [published |-> FALSE, date_available |-> None,
     date_insert |-> None, date_update |-> None]

PubPKs == 1..MaxPk

\* timezone.now() moves on.
Tick ==
    /\ now < MaxTime
    /\ now' = now + 1
    /\ UNCHANGED <<slugVars, pubVars, configVars>>

\* Publishable.is_published(): self.published and self.date_available <= now.
\* "and" gives self.published when that is false; comparing None with a
\* datetime raises TypeError.
is_published(row, t) ==
    IF ~row.published THEN "False"
    ELSE IF row.date_available = None THEN "TypeError"
    ELSE IF row.date_available <= t THEN "True"
    ELSE "False"

IsPublished(pk) ==
    /\ publishables[pk] # NoPublishable
    /\ lastPub' = [called |-> TRUE,
                   published |-> publishables[pk].published,
                   date_available |-> publishables[pk].date_available,
                   at |-> now,
                   result |-> is_published(publishables[pk], now)]
    /\ UNCHANGED <<slugVars, now, publishables, configVars>>

\* A date_insert declared auto_now instead of auto_now_add.
PreSaveDatesAlwaysNow(obj, add, tIns, tUpd) ==
    [obj EXCEPT !.date_insert = tIns, !.date_update = tUpd]

\* Model.save() of a Date: the pre_save of date_insert (auto_now_add: set to
\* now when the row is added) and of date_update (auto_now: set to now).
PreSaveDates(obj, add, tIns, tUpd) ==
    [obj EXCEPT !.date_insert = IF add THEN tIns ELSE obj.date_insert,
                !.date_update = tUpd]

FreePubPk == CHOOSE p \in PubPKs :
    /\ publishables[p] = NoPublishable
    /\ \A q \in PubPKs : q < p => publishables[q] # NoPublishable

\* obj.save() of a Publishable: insert when obj.pk is None (pk 0), update
\* otherwise. The two pre_save calls read the clock at tIns <= tUpd.
ModelSaved(pk, obj, tIns, tUpd) ==
    IF pk = 0
    THEN [publishables EXCEPT ![FreePubPk] = PreSaveDates(obj, TRUE, tIns, tUpd)]
    ELSE [publishables EXCEPT ![pk] = PreSaveDates(obj, FALSE, tIns, tUpd)]

CanSavePub(pk, tIns, tUpd) ==
    /\ pk = 0 => \E p \in PubPKs : publishables[p] = NoPublishable
    /\ pk # 0 => publishables[pk] # NoPublishable
    /\ now <= tIns /\ tIns <= tUpd /\ tUpd <= MaxTime /\ tUpd <= now + 1

\* PublishableAdmin.save_model(request, obj, form, change) with change false:
\* the add form's new object.
SaveModelAdd(published, date_available, tIns, tUpd) ==
    /\ CanSavePub(0, tIns, tUpd)
    /\ LET obj == [published |-> published, date_available |-> date_available,
                   date_insert |-> now, date_update |-> now]
       IN publishables' = ModelSaved(0, obj, tIns, tUpd)
    /\ now' = tUpd
    /\ UNCHANGED <<slugVars, lastPub, configVars>>

\* save_model with change true: the stored object with the form's fields.
SaveModelChange(pk, published, date_available, tIns, tUpd) ==
    /\ pk # 0
    /\ CanSavePub(pk, tIns, tUpd)
    /\ LET obj == [publishables[pk] EXCEPT !.published = published,
                                           !.date_available = date_available,
                                           !.date_update = now]
       IN publishables' = ModelSaved(pk, obj, tIns, tUpd)
    /\ now' = tUpd
    /\ UNCHANGED <<slugVars, lastPub, configVars>>

\* MassPublishMixin.publish(modeladmin, request, queryset): every object of
\* the queryset has published negated and is saved.
Publish(queryset) ==
    /\ queryset # {}
    /\ \A pk \in queryset : publishables[pk] # NoPublishable
    /\ publishables' =
          [pk \in PubPKs |->
              IF pk \in queryset
              THEN PreSaveDates(
                      [publishables[pk] EXCEPT !.published = ~publishables[pk].published],
                      FALSE, now, now)
              ELSE publishables[pk]]
    /\ UNCHANGED <<slugVars, now, lastPub, configVars>>

\* obj.save() called directly on a new (pk 0) or a loaded object.
ModelSave(pk, published, date_available, tIns, tUpd) ==
    /\ CanSavePub(pk, tIns, tUpd)
    /\ LET obj == IF pk = 0
                  THEN [published |-> published, date_available |-> date_available,
                        date_insert |-> None, date_update |-> None]
                  ELSE [publishables[pk] EXCEPT !.published = published,
                                                !.date_available = date_available]
       IN publishables' = ModelSaved(pk, obj, tIns, tUpd)
    /\ now' = tUpd
    /\ UNCHANGED <<slugVars, lastPub, configVars>>

----------------------------------------------------------------------------
(* BaseConfig *)

Keys == {"k1", "k2"}

\* Python values a get_value call gives: a bool, a str, a parsed JSON object,
\* or the exception raised.
PyFalse == [type |-> "bool", repr |-> "False"]
PyStr(str) == [type |-> "str", repr |-> str]
PyRaise(exc) == [type |-> "raise", repr |-> exc]

\* json.loads on the values the model stores.
JsonLoads(value) ==
    IF value = "false" THEN PyFalse
    ELSE IF value = "{\"a\": 1}" THEN [type |-> "dict", repr |-> "{u'a': 1}"]
    ELSE PyRaise("ValueError")

\* BaseConfig.format_value(value, format)
format_value(value, format) ==
    IF format = "text" THEN PyStr(value)
    ELSE IF format = "json" THEN JsonLoads(value)
    ELSE PyStr("TODO")

\* key = SlugField(unique=True): a stored row already has the key.
KeyTaken(rows, row) == \E r \in rows : r.key = row.key

\* unique_together = ("key_group", "key", "site", "channel", "article")
SameTuple(r, row) ==
    /\ r.key_group = row.key_group
    /\ r.key = row.key
    /\ r.site = row.site
    /\ r.channel = row.channel
    /\ r.article = row.article

TupleTaken(rows, row) == \E r \in rows : SameTuple(r, row)

\* The five fields of unique_together, as the caller gave them.
FiveOf(row) ==
    [key_group |-> row.key_group, key |-> row.key, site |-> row.site,
     channel |-> row.channel, article |-> row.article]

\* A new BaseConfig row is saved: date_insert is set by auto_now_add; the
\* insert raises IntegrityError when a unique constraint is violated.
InsertConfig(key_group, key, site, channel, article, format, value, published, date_available) ==
    LET row == [key_group |-> key_group, key |-> key, site |-> site,
                channel |-> channel, article |-> article,
                format |-> format, value |-> value, published |-> published,
                date_available |-> date_available, date_insert |-> now]
        rejected == KeyTaken(configs, row) \/ TupleTaken(configs, row)
    IN /\ configs' = IF rejected THEN configs ELSE configs \cup {row}
       /\ lastConfig' = [op |-> "insert", five |-> FiveOf(row),
                         outcome |-> IF rejected THEN "IntegrityError" ELSE "saved"]
       /\ UNCHANGED <<slugVars, now, pubVars>>

\* The filter without published=True.
PublishedNowIgnoringFlag(rows, key, t) ==
    {r \in rows : r.key = key /\ r.date_available # None /\ r.date_available <= t}

\* cls.objects.filter(key=key, published=True, date_available__lte=now)
PublishedNow(rows, key, t) ==
    {r \in rows : /\ r.key = key
                  /\ r.published
                  /\ r.date_available # None
                  /\ r.date_available <= t}

\* instance.filter(**kwargs): every keyword is an equality on its field.
FilterKwargs(rows, kwargs) ==
    {r \in rows : \A f \in DOMAIN kwargs : r[f] = kwargs[f]}

\* instance.latest('date_insert'): a row with the greatest date_insert (the
\* database picks among equals).
Latest(rows) == {r \in rows : \A q \in rows : q.date_insert <= r.date_insert}

\* BaseConfig.get_value(key, **kwargs): the values the call can give.
get_value(rows, key, kwargs, t) ==
    LET instance == FilterKwargs(PublishedNow(rows, key, t), kwargs)
    IN IF instance = {}
       THEN {PyFalse}
       ELSE {format_value(r.value, r.format) : r \in Latest(instance)}

GetValue(key, kwargs) ==
    /\ \E value \in get_value(configs, key, kwargs, now) :
          lastConfig' = [op |-> "get_value", key |-> key, kwargs |-> kwargs,
                         value |-> value]
    /\ UNCHANGED <<slugVars, now, pubVars, configs>>

\* The scope filters the model passes to get_value.
NoKwargs == [f \in {} |-> None]
Kwargs == {NoKwargs, [site |-> 1], [site |-> 2, channel |-> None]}

\* The (format, value) pairs the model stores.
Payloads ==
    {<<"text", "">>, <<"text", "False">>, <<"json", "false">>,
     <<"json", "{\"a\": 1}">>, <<"json", "">>, <<"yaml", "a: 1">>}

\* The rows the model inserts, as (format, value, published, date_available):
\* every payload in a row that is published and available from time 0, and a
\* text row that is unpublished, or available only from MaxTime, or has a
\* null date_available.
Fixtures ==
    {<<p[1], p[2], TRUE, 0>> : p \in Payloads}
    \cup {<<"text", "x", FALSE, 0>>, <<"text", "x", TRUE, MaxTime>>,
          <<"text", "x", TRUE, None>>}

----------------------------------------------------------------------------

Init ==
    /\ now = 0
    /\ publishables = [p \in PubPKs |-> NoPublishable]
    /\ lastPub = [called |-> FALSE, published |-> FALSE, date_available |-> None,
                  at |-> 0, result |-> "False"]
    /\ configs = {}
    /\ lastConfig = [op |-> "none"]
    /\ slugged = [p \in PKs |-> NoRow]
    /\ redirects = EmptyBag
    /\ lastSave = [pk |-> 0, slug |-> "", site |-> 0,
                   urlOk |-> TRUE, outcome |-> "none"]

Next ==
    \/ \E pk \in {0} \cup PKs, slug \in Slugs, site \in Sites, urlOk \in BOOLEAN :
          Save(pk, slug, site, urlOk)
    \/ \E pk \in {0} \cup PKs, slug \in Slugs, site \in Sites, urlOk \in BOOLEAN :
          CleanSave(pk, slug, site, urlOk)

Spec == Init /\ [][Next]_vars

\* Only validated saves, and get_absolute_url never raises: every create and
\* every rename goes through clean() first.
NextClean ==
    \E pk \in {0} \cup PKs, slug \in Slugs, site \in Sites :
        CleanSave(pk, slug, site, TRUE)

SpecClean == Init /\ [][NextClean]_vars

\* The saves of a Publishable, without is_published() calls.
NextDate ==
    \/ Tick
    \/ \E published \in BOOLEAN, date_available \in Times \cup {None},
          tIns \in Times, tUpd \in Times :
          SaveModelAdd(published, date_available, tIns, tUpd)
    \/ \E pk \in PubPKs, published \in BOOLEAN, date_available \in Times \cup {None},
          tIns \in Times, tUpd \in Times :
          SaveModelChange(pk, published, date_available, tIns, tUpd)
    \/ \E queryset \in SUBSET PubPKs : Publish(queryset)
    \/ \E pk \in {0} \cup PubPKs, published \in BOOLEAN,
          date_available \in Times \cup {None}, tIns \in Times, tUpd \in Times :
          ModelSave(pk, published, date_available, tIns, tUpd)

SpecDate == Init /\ [][NextDate]_vars

\* The saves of a Publishable and is_published().
NextPublishable ==
    \/ NextDate
    \/ \E pk \in PubPKs : IsPublished(pk)

SpecPublishable == Init /\ [][NextPublishable]_vars

\* Configuration rows of two sites are inserted and looked up.
NextConfig ==
    \/ Tick
    \/ \E key \in Keys, site \in Sites, fx \in Fixtures :
          InsertConfig(None, key, site, None, None, fx[1], fx[2], fx[3], fx[4])
    \/ \E key \in Keys, kwargs \in Kwargs : GetValue(key, kwargs)

SpecConfig == Init /\ [][NextConfig]_vars

\* Published text rows are inserted under every scope: group, site, channel
\* and article each set or null.
NextConfigScopes ==
    \E key_group \in {None, 1}, key \in Keys, site \in Sites,
        channel \in {None, 1}, article \in {None, 1} :
        InsertConfig(key_group, key, site, channel, article, "text", "", TRUE, 0)

SpecConfigScopes == Init /\ [][NextConfigScopes]_vars

----------------------------------------------------------------------------
(* Claims about Slugged *)

\* The step ran save() (clean(), if called, raised nothing).
ReachedSave == lastSave'.outcome # "ValidationError"

\* The save() of the step is of a persisted record whose slug differs from
\* the stored one.
IsRename == lastSave'.pk # 0 /\ slugged[lastSave'.pk].slug # lastSave'.slug

\* The canonical path of the instance being saved can be computed and, before
\* the step, is the old_path of a Redirect of the instance's site.
Collides ==
    /\ lastSave'.urlOk
    /\ \E r \in BagToSet(redirects) :
          /\ r.site = lastSave'.site
          /\ r.old_path = get_absolute_url(lastSave'.slug)

\* C1: a save() of a persisted record whose slug differs from the stored slug
\* (A -> B), with the canonical paths computable, adds exactly one Redirect,
\* (the entity's site, canonical-path(A), canonical-path(B)); a save() of a
\* new record and a save() with the slug unchanged add none.
C1_RedirectOnRename ==
    [][ ReachedSave =>
           IF IsRename
           THEN lastSave'.urlOk =>
                   redirects' = redirects (+) SetToBag({
                      [site |-> lastSave'.site,
                       old_path |-> get_absolute_url(slugged[lastSave'.pk].slug),
                       new_path |-> get_absolute_url(lastSave'.slug)]})
           ELSE redirects' = redirects ]_vars

\* C1 witness: a rename was saved and its Redirect is in the table.
C1_Witness ==
    /\ lastSave.pk # 0
    /\ lastSave.outcome = "saved"
    /\ slugged[lastSave.pk].slug = lastSave.slug
    /\ \E r \in BagToSet(redirects) :
          /\ r.site = lastSave.site
          /\ r.new_path = get_absolute_url(lastSave.slug)
          /\ r.old_path # r.new_path

\* C2 (as claimed): a save attempt of an entity whose canonical path is the
\* old_path of a Redirect of its site fails validation and stores nothing,
\* however save() is invoked.
C2_CollisionNeverPersists ==
    [][ Collides =>
           /\ lastSave'.outcome = "ValidationError"
           /\ slugged' = slugged
           /\ redirects' = redirects ]_vars

\* C8 (as claimed): when save() finds the slug changed and get_absolute_url
\* raises, the save goes on: a Redirect with the stored slug's raw value as
\* old_path is stored and the primary save commits.
C8_FallbackInSave ==
    [][ (ReachedSave /\ IsRename /\ ~lastSave'.urlOk) =>
           /\ lastSave'.outcome # "UrlError"
           /\ \E r \in BagToSet(redirects') :
                 /\ r.old_path = slugged[lastSave'.pk].slug
                 /\ redirects' = redirects (+) SetToBag({r}) ]_vars

\* C8 (amended): when save() finds the slug changed and get_absolute_url
\* raises, the exception leaves save(): no Redirect is stored and the primary
\* save does not commit.
C8_UrlErrorAbortsSave ==
    [][ (ReachedSave /\ IsRename /\ ~lastSave'.urlOk) =>
           /\ lastSave'.outcome = "UrlError"
           /\ redirects' = redirects
           /\ slugged' = slugged ]_vars

\* C8 witness: a rename whose get_absolute_url raised has been attempted.
C8_Witness ==
    /\ lastSave.pk # 0
    /\ ~lastSave.urlOk
    /\ lastSave.outcome = "UrlError"
    /\ slugged[lastSave.pk].slug # lastSave.slug

\* C9 (as claimed): a step that stores a Redirect also persists the slug
\* change it stands for.
C9_RedirectAtomicWithRename ==
    [][ BagCardinality(redirects') > BagCardinality(redirects) =>
           /\ lastSave'.outcome = "saved"
           /\ slugged'[lastSave'.pk].slug = lastSave'.slug ]_vars

\* C10 (as claimed), under SpecClean: no persisted entity's canonical path is
\* the old_path of a Redirect of its site, and no two Redirects of a site
\* form a cycle.
C10_NoShadowNoCycle ==
    /\ \A p \in PKs : \A r \in BagToSet(redirects) :
          slugged[p] # NoRow =>
             ~ (/\ r.site = slugged[p].site
                /\ r.old_path = get_absolute_url(slugged[p].slug))
    /\ \A r, q \in BagToSet(redirects) :
          ~ (/\ r.site = q.site
             /\ r.old_path = q.new_path
             /\ r.new_path = q.old_path)

----------------------------------------------------------------------------
(* Claims about Publishable and Date *)

\* C5 (as claimed): for every published flag and date_available, null
\* included, is_published() returns true iff published is true and
\* date_available <= now (equal timestamps count), and false otherwise.
C5_IsPublishedIff ==
    lastPub.called =>
        lastPub.result =
            IF /\ lastPub.published
               /\ lastPub.date_available # None
               /\ lastPub.date_available <= lastPub.at
            THEN "True"
            ELSE "False"

\* C7: in every stored state date_update >= date_insert, and no step changes
\* the date_insert of a row that is already stored.
C7_DateInsertFixed ==
    /\ [](\A pk \in PubPKs :
             publishables[pk] # NoPublishable =>
                publishables[pk].date_update >= publishables[pk].date_insert)
    /\ [][\A pk \in PubPKs :
             publishables[pk] # NoPublishable =>
                publishables'[pk].date_insert = publishables[pk].date_insert]_vars

\* C7 witness: a row created at one time has been saved again at a later time.
C7_Witness ==
    \E pk \in PubPKs :
        /\ publishables[pk] # NoPublishable
        /\ publishables[pk].date_insert < publishables[pk].date_update
        /\ publishables[pk].date_update = now

----------------------------------------------------------------------------
(* Claims about BaseConfig *)

\* The step is a get_value call.
IsGetValue == lastConfig'.op = "get_value" /\ UNCHANGED <<configs, now>>

\* The rows a get_value call of the step is to choose from: published,
\* available at the time of the call, of the key, matching every scope filter.
Matching ==
    {r \in configs :
        /\ r.key = lastConfig'.key
        /\ r.published = TRUE
        /\ r.date_available \in 0..now
        /\ \A f \in DOMAIN lastConfig'.kwargs : r[f] = lastConfig'.kwargs[f]}

C4_SentinelDistinct ==
    [][ (IsGetValue /\ Matching # {}) => lastConfig'.value # PyFalse ]_vars

\* C6 (as claimed): an insert is rejected exactly when a stored row has the
\* same values on all of key_group, key, site, channel, article.
C6_UniqueOnFiveFields ==
    [][ (lastConfig'.op = "insert" /\ now' = now) =>
           (lastConfig'.outcome = "IntegrityError"
              <=> \E r \in configs : FiveOf(r) = lastConfig'.five) ]_vars

====
